---- MODULE Spec2Model ----
(***************************************************************************)
(* Model of the study-buddy document pipeline: the tRPC study router       *)
(* (upload, status, getMaterial, history, saveProgress, getProgress), the  *)
(* session lookup it authenticates with, and the background job            *)
(* processDocument that drives a document through its statuses.            *)
(*                                                                         *)
(* The repository holds two versions of the job: src/lib/jobs.ts (drizzle  *)
(* handle `db`, extractor called without await, plain catch block) and the *)
(* repository-based version (ensureDb, awaited extractor, catch block with *)
(* its own try/catch).  The variable `build` says which one is deployed.   *)
(*                                                                         *)
(* A storage or provider call is one step: it either takes effect and      *)
(* returns, or raises and leaves the stored records unchanged.             *)
(***************************************************************************)
EXTENDS Integers, Sequences, FiniteSets, TLC

\* ------------------------------------------------------------------ bounds
MaxDocs == 2
MaxSessions == 2
MaxTime == 2
MaxProgress == 1
MaxFairDocs == 1
MaxQueryDocs == 1
MaxTail == 2
MaxQuestions == 3
MaxAttempts == 2
MaxRegisters == 2
MaxCallers == 3
TimerSteps == 3

\* SESSION_DURATION_MS, in clock ticks of the model
SessionDuration == 1

Users == {"u1", "u2"}
Builds == {"drizzle", "repo"}

\* sessionId inputs: 0 stands for a request without the sessionId field,
\* a positive number for a well-formed uuid
NoSessionId == 0
SessionInputs == 0..MaxSessions

\* mime types as the sequence of their tokens
MimePdf == <<"application", "pdf">>
MimePdfCharset == <<"application", "pdf", "charset=utf-8">>
MimePng == <<"image", "png">>
\* the uploads tried: a type and whether the PDF parser accepts the payload
Uploads ==
  { [mimeType |-> MimePdf, parses |-> TRUE],
    [mimeType |-> MimePdfCharset, parses |-> FALSE],
    [mimeType |-> MimePng, parses |-> FALSE] }

Statuses == {"pending", "processing", "completed", "failed"}
Terminal == {"completed", "failed"}

\* an optional value is a set with at most one element; {} is null
Null == {}
Some(v) == {v}

VARIABLES
  build,        \* which version of processDocument is deployed
  now,          \* the clock
  users,        \* registered user ids
  sessions,     \* session id -> [userId, expiresAt]
  nSessions,    \* session ids handed out so far
  docs,         \* document id -> [userId, mimeType, parses, status, errorMessage]
  materials,    \* study material id -> [documentId, summary, flashcards, quiz]
  progress,     \* quiz progress id -> [userId, studyMaterialId, score, totalQuestions]
  pc,           \* document id -> position of its processDocument run
  caught,       \* document id -> the error held by the catch block (a local)
  faulted,      \* document id -> steps of its job at which an error was raised
  dispatched,   \* document id -> number of processDocument calls scheduled
  unhandled,    \* document ids whose extractor promise rejected with no handler
  generated,    \* document id -> `material`, a local of the running job
  seenCompleted,\* document ids for which a status query has answered completed
  resp,         \* the last response of the router
  call,         \* a call of one of the library functions: its input and result
  quiz,         \* the state of a QuizMode component and what it has reported
  accounts,     \* the rows of the users table that register has written
  reg,          \* register call -> its input, its position and its outcome
  asked,        \* document id -> number of completion requests sent for it
  page,         \* the state of a StudyPage and of its two queries
  factory,      \* dbInstance, _syncDb and the calls of initDatabase under way
  received      \* document id -> whether the completion its job got was empty

vars == <<build, now, users, sessions, nSessions, docs, materials, progress,
          pc, caught, faulted, dispatched, unhandled, generated,
          seenCompleted, resp, call, quiz, accounts, reg, asked, page,
          factory, received>>

\* every variable of the server
store == <<build, now, users, sessions, nSessions, docs, materials, progress,
           pc, caught, faulted, dispatched, unhandled, generated,
           seenCompleted, resp, accounts, reg, asked, received>>

DocIds == 1..MaxDocs

\* ---------------------------------------------------------------- errors
\* a thrown value: an Error with its message (a sequence of text pieces),
\* or a value that is not an Error
Err(msg) == [isError |-> TRUE, message |-> msg]
NonError == [isError |-> FALSE, message |-> <<>>]
Contains(msg, piece) == \E i \in 1..Len(msg) : msg[i] = piece

StorageError == Err(<<"storage unavailable">>)
DbInitError == Err(<<"database initialization failed">>)
ProviderThrows == { Err(<<"provider request failed">>), NonError }

\* error instanceof Error ? error.message : 'Unknown error'
CatchMessage(e) == IF e.isError THEN e.message ELSE <<"Unknown error">>

\* a variant that stores the message as it was passed, to show what C29
\* rests on
AsPassed(msg) == Some(msg)

\* errorMessage || null ; an omitted argument is the empty message here
OrNull(msg) == IF msg = <<>> THEN Null ELSE Some(msg)

\* ------------------------------------------------------------- extractor
\* a variant of the match that looks at the start of the type only, to show
\* what C14 rests on
StartsWith(mimeType, word) == Len(mimeType) >= 1 /\ mimeType[1] = word

\* mimeType.includes(word)
Includes(mimeType, word) == \E i \in 1..Len(mimeType) : mimeType[i] = word

PdfParserError == Err(<<"Invalid PDF structure">>)
OcrError ==
  Err(<<"Image documents require OCR which is not yet implemented. Please upload a PDF or text file.">>)

\* extractTextFromBase64: the text, or the error the returned promise rejects with
ExtractTextFromBase64(doc) ==
  IF Includes(doc.mimeType, "pdf")
  THEN IF doc.parses
       THEN [ok |-> TRUE, error |-> NonError]
       ELSE [ok |-> FALSE,
             error |-> Err(<<"Failed to parse PDF: ">> \o CatchMessage(PdfParserError))]
  ELSE IF Includes(doc.mimeType, "image")
       THEN [ok |-> FALSE, error |-> OcrError]
       ELSE [ok |-> TRUE, error |-> NonError]

\* ------------------------------------------------------------------ text
\* a string is held as its runs: n >= 1 copies of one character, adjacent
\* runs of different characters ("LF" is a line feed, "SP" a space)
Run(ch, n) == [ch |-> ch, n |-> n]

\* s.length
RECURSIVE Length(_)
Length(s) == IF s = <<>> THEN 0 ELSE Head(s).n + Length(Tail(s))

\* s.substring(0, k)
RECURSIVE Substring0(_, _)
Substring0(s, k) ==
  IF s = <<>> \/ k <= 0 THEN <<>>
  ELSE IF Head(s).n <= k
       THEN <<Head(s)>> \o Substring0(Tail(s), k - Head(s).n)
       ELSE <<Run(Head(s).ch, k)>>

\* a + b
Concat(a, b) ==
  IF a = <<>> THEN b
  ELSE IF b = <<>> THEN a
  ELSE IF a[Len(a)].ch = b[1].ch
       THEN SubSeq(a, 1, Len(a) - 1)
              \o <<Run(b[1].ch, a[Len(a)].n + b[1].n)>> \o Tail(b)
       ELSE a \o b

\* const maxChars = 50000
MaxChars == 50000

\* '\n\n[Content truncated due to length...]'
TruncationSuffix ==
  <<Run("LF", 2), Run("[", 1), Run("C", 1), Run("o", 1), Run("n", 1),
     Run("t", 1), Run("e", 1), Run("n", 1), Run("t", 1), Run("SP", 1),
     Run("t", 1), Run("r", 1), Run("u", 1), Run("n", 1), Run("c", 1),
     Run("a", 1), Run("t", 1), Run("e", 1), Run("d", 1), Run("SP", 1),
     Run("d", 1), Run("u", 1), Run("e", 1), Run("SP", 1), Run("t", 1),
     Run("o", 1), Run("SP", 1), Run("l", 1), Run("e", 1), Run("n", 1),
     Run("g", 1), Run("t", 1), Run("h", 1), Run(".", 3), Run("]", 1)>>

\* the outcome of an extraction: the text, or the error thrown
Extracted(text) == [ok |-> TRUE, text |-> text, error |-> NonError]
ExtractFailed(e) == [ok |-> FALSE, text |-> <<>>, error |-> e]

\* a variant of the extractor that cuts at maxChars - 1 characters, to show
\* what C12 rests on
ExtractFromCutShort(base64Data, mimeType) ==
  IF Includes(mimeType, "pdf")
  THEN IF base64Data.parses
       THEN IF Length(base64Data.text) > MaxChars
            THEN Extracted(Concat(Substring0(base64Data.text, MaxChars - 1),
                                  TruncationSuffix))
            ELSE Extracted(base64Data.text)
       ELSE ExtractFailed(Err(<<"Failed to parse PDF: ">> \o CatchMessage(PdfParserError)))
  ELSE IF Includes(mimeType, "image")
       THEN ExtractFailed(OcrError)
       ELSE Extracted(base64Data.text)

\* extractTextFromBase64 with the text it returns. base64Data is held as
\* what it decodes to: .text is the document's text (the parser's
\* pdfData.text for a PDF, the UTF-8 decoding otherwise) and .parses says
\* whether the PDF parser accepts the bytes
ExtractFrom(base64Data, mimeType) ==
  IF Includes(mimeType, "pdf")
  THEN IF base64Data.parses
       THEN IF Length(base64Data.text) > MaxChars
            THEN Extracted(Concat(Substring0(base64Data.text, MaxChars),
                                  TruncationSuffix))
            ELSE Extracted(base64Data.text)
       ELSE ExtractFailed(Err(<<"Failed to parse PDF: ">> \o CatchMessage(PdfParserError)))
  ELSE IF Includes(mimeType, "image")
       THEN ExtractFailed(OcrError)
       ELSE Extracted(base64Data.text)

\* ------------------------------------------------------------ normalizer
\* a completion is held as a sequence of pieces: the fence of three backticks, the tag
\* word json in some letter case, white space, the braces, the comma, a key
\* with its colon ("k:"), JSON atoms, the quote "q" that opens and closes a
\* JSON string with other pieces in it, and words of prose. The regular
\* expressions of cleanJsonResponse see the pieces as their characters do.
Fence == "fence"
Tags == {"json", "JSON", "Json"}
Whitespace == {"SP", "LF", "TAB"}
\* "s" is a JSON string of plain characters
JsonAtoms == {"s", "42", "null", "[]"}

\* text.trim()
Trim(text) ==
  LET solid == {i \in 1..Len(text) : text[i] \notin Whitespace}
  IN IF solid = {} THEN <<>>
     ELSE SubSeq(text, CHOOSE i \in solid : \A j \in solid : i <= j,
                       CHOOSE i \in solid : \A j \in solid : i >= j)

\* cleaned.match(/^```(?:json)?\s*([\s\S]*?)\s*```$/i): the capture, if any
CodeBlockMatch(cleaned) ==
  IF Len(cleaned) >= 2 /\ cleaned[1] = Fence /\ cleaned[Len(cleaned)] = Fence
  THEN LET from == IF Len(cleaned) >= 3 /\ cleaned[2] \in Tags THEN 3 ELSE 2
       IN Some(Trim(SubSeq(cleaned, from, Len(cleaned) - 1)))
  ELSE Null

\* a variant of the brace match that stops at the first '}', to show what
\* C15 rests on
JsonMatchLazy(cleaned) ==
  LET opens == {i \in 1..Len(cleaned) : cleaned[i] = "{"}
      closes == {i \in 1..Len(cleaned) : cleaned[i] = "}"}
  IN IF \E i \in opens, j \in closes : i < j
     THEN LET first == CHOOSE i \in opens : \A k \in opens : i <= k
              after == {j \in closes : j > first}
          IN Some(SubSeq(cleaned, first,
                         CHOOSE j \in after : \A k \in after : j <= k))
     ELSE Null

\* cleaned.match(/\{[\s\S]*\}/): from the first '{' to the last '}'
JsonMatch(cleaned) ==
  LET opens == {i \in 1..Len(cleaned) : cleaned[i] = "{"}
      closes == {i \in 1..Len(cleaned) : cleaned[i] = "}"}
  IN IF \E i \in opens, j \in closes : i < j
     THEN Some(SubSeq(cleaned, CHOOSE i \in opens : \A k \in opens : i <= k,
                               CHOOSE j \in closes : \A k \in closes : j >= k))
     ELSE Null

\* a variant of the cleaning without the brace match, to show what C16
\* rests on
CleanJsonResponseFenceOnly(text) ==
  LET trimmed == Trim(text)
  IN IF CodeBlockMatch(trimmed) = Null THEN trimmed
     ELSE CHOOSE c \in CodeBlockMatch(trimmed) : TRUE

\* cleanJsonResponse
CleanJsonResponse(text) ==
  LET trimmed == Trim(text)
      unwrapped == IF CodeBlockMatch(trimmed) = Null THEN trimmed
                   ELSE CHOOSE c \in CodeBlockMatch(trimmed) : TRUE
  IN IF JsonMatch(unwrapped) = Null THEN unwrapped
     ELSE CHOOSE c \in JsonMatch(unwrapped) : TRUE

\* JSON.parse skips the white space between tokens, not inside strings
RECURSIVE TokensFrom(_, _)
TokensFrom(text, inString) ==
  IF text = <<>> THEN <<>>
  ELSE IF Head(text) \in Whitespace /\ ~inString
       THEN TokensFrom(Tail(text), inString)
       ELSE <<Head(text)>>
              \o TokensFrom(Tail(text), IF Head(text) = "q" THEN ~inString
                                        ELSE inString)

Tokens(text) == TokensFrom(text, FALSE)

\* where the string that opens with the quote at i ends, or 0
StringEnd(t, i) ==
  LET quotes == {j \in (i + 1)..Len(t) : t[j] = "q"}
  IN IF quotes = {} THEN 0
     ELSE 1 + CHOOSE j \in quotes : \A k \in quotes : j <= k

\* the JSON grammar: where the value that starts at token i ends (the index
\* after it), or 0 if no value starts there
RECURSIVE ValueEnd(_, _)
RECURSIVE MemberEnd(_, _)
ValueEnd(t, i) ==
  IF i > Len(t) THEN 0
  ELSE IF t[i] \in JsonAtoms THEN i + 1
  ELSE IF t[i] = "q" THEN StringEnd(t, i)
  ELSE IF t[i] # "{" THEN 0
  ELSE IF i + 1 <= Len(t) /\ t[i + 1] = "}" THEN i + 2
  ELSE MemberEnd(t, i + 1)

\* a member "k:" value at i, then ',' and another member, or '}'
MemberEnd(t, i) ==
  IF i > Len(t) \/ t[i] # "k:" THEN 0
  ELSE LET j == ValueEnd(t, i + 1)
       IN IF j = 0 \/ j > Len(t) THEN 0
          ELSE IF t[j] = "}" THEN j + 1
          ELSE IF t[j] = "," THEN MemberEnd(t, j + 1)
          ELSE 0

\* JSON.parse: the value (held as its tokens) or a SyntaxError
JsonParse(text) ==
  LET t == Tokens(text)
  IN IF ValueEnd(t, 1) = Len(t) + 1
     THEN [ok |-> TRUE, value |-> t, error |-> NonError]
     ELSE [ok |-> FALSE, value |-> <<>>, error |-> Err(<<"Unexpected token">>)]

\* parseAIResponse on the text of the completion
ParseText(text) ==
  LET out == JsonParse(CleanJsonResponse(text))
  IN IF out.ok THEN out
     ELSE [out EXCEPT !.error =
             Err(<<"Failed to parse AI response as JSON: ">> \o CatchMessage(out.error))]

\* ------------------------------------------------------------- generator
\* what the provider's completion looks like
Completions == {"json", "fenced", "prose", "empty"}

FullMaterial == [summary |-> Some("summary"), flashcards |-> Some("flashcards"),
                 quiz |-> Some("quiz")]
EmptyObject == [summary |-> Null, flashcards |-> Null, quiz |-> Null]

\* a variant that passes the content on as it is, to show what C30 rests on
ContentAsIs(content) == content

\* completion.choices[0]?.message?.content || '{}'
ContentOrDefault(content) == IF content = <<>> THEN <<"{", "}">> ELSE content

\* parseAIResponse(completion.choices[0]?.message?.content || '{}'); an
\* empty completion is parsed as the text put in its place
ParseAIResponse(completion) ==
  CASE completion = "json"   -> [ok |-> TRUE, material |-> FullMaterial, error |-> NonError]
    [] completion = "fenced" -> [ok |-> TRUE, material |-> FullMaterial, error |-> NonError]
    [] completion = "empty"  ->
         LET out == ParseText(ContentOrDefault(<<>>))
         IN [ok |-> out.ok, material |-> EmptyObject, error |-> out.error]
    [] OTHER -> [ok |-> FALSE, material |-> EmptyObject,
                 error |-> Err(<<"Failed to parse AI response as JSON: ", "Unexpected token">>)]

\* --------------------------------------------------------------- storage
\* variants of the status update, to show what C3 and C7 rest on:
\* an update whose WHERE clause is missing writes every row
UpdateStatusEveryRow(ds, id, status, msg) ==
  [x \in DOMAIN ds |->
     [ds[x] EXCEPT !.status = status, !.errorMessage = OrNull(msg)]]

\* an update that writes 'processing' and 'completed' but not 'failed'
UpdateStatusNotFailed(ds, id, status, msg) ==
  [x \in DOMAIN ds |->
     IF x = id /\ status # "failed"
     THEN [ds[x] EXCEPT !.status = status, !.errorMessage = OrNull(msg)]
     ELSE ds[x]]

\* documents.updateStatus / updateDocumentStatus
UpdateStatus(ds, id, status, msg) ==
  [x \in DOMAIN ds |->
     IF x = id
     THEN [ds[x] EXCEPT !.status = status, !.errorMessage = OrNull(msg)]
     ELSE ds[x]]

\* studyMaterials.create / db.insert(studyMaterials)
CreateMaterial(ms, documentId, m) ==
  LET id == Cardinality(DOMAIN ms) + 1
  IN [x \in DOMAIN ms \cup {id} |->
        IF x = id
        THEN [documentId |-> documentId, summary |-> m.summary,
              flashcards |-> m.flashcards, quiz |-> m.quiz]
        ELSE ms[x]]

\* studyMaterials.findByDocumentId: the first material of the document
FindMaterial(ms, documentId) ==
  LET hits == {x \in DOMAIN ms : ms[x].documentId = documentId}
  IN IF hits = {} THEN Null
     ELSE LET first == CHOOSE x \in hits : \A y \in hits : x <= y
          IN Some([id |-> first, summary |-> ms[first].summary,
                   flashcards |-> ms[first].flashcards, quiz |-> ms[first].quiz])

\* ------------------------------------------------------- processDocument
\* variants of the try block, to show what C1, C2 and C6 rest on:
\* one that returns without the update to 'completed'
TryStepsNoCompleted(b) ==
  IF b = "repo"
  THEN <<"ensureDb", "setProcessing", "load", "extract", "generate", "persist">>
  ELSE <<"setProcessing", "load", "extract", "generate", "persist">>

\* one that starts work without the update to 'processing'
TryStepsNoProcessing(b) ==
  IF b = "repo"
  THEN <<"ensureDb", "load", "extract", "generate", "persist", "setCompleted">>
  ELSE <<"load", "extract", "generate", "persist", "setCompleted">>

\* one that marks the document completed before it stores the material
TryStepsCompletedFirst(b) ==
  IF b = "repo"
  THEN <<"ensureDb", "setProcessing", "load", "extract", "generate",
         "setCompleted", "persist">>
  ELSE <<"setProcessing", "load", "extract", "generate", "setCompleted", "persist">>

\* the awaited statements of the try block, in order
TrySteps(b) ==
  IF b = "repo"
  THEN <<"ensureDb", "setProcessing", "load", "extract", "generate", "persist",
         "setCompleted">>
  ELSE <<"setProcessing", "load", "extract", "generate", "persist", "setCompleted">>

FirstStep(b) == TrySteps(b)[1]

StepAfter(b, step) ==
  LET s == TrySteps(b)
      i == CHOOSE k \in 1..Len(s) : s[k] = step
  IN IF i = Len(s) THEN "done" ELSE s[i + 1]

\* the statement at `step` completed: go on to the next one
Advance(d) == pc' = [pc EXCEPT ![d] = StepAfter(build, pc[d])]

\* the statement at `step` raised e: control goes to the catch block
Raise(d, step, e) ==
  /\ pc' = [pc EXCEPT ![d] = "catch"]
  /\ caught' = [caught EXCEPT ![d] = Some(e)]
  /\ faulted' = [faulted EXCEPT ![d] = @ \cup {step}]

\* a variant of the dispatch that schedules the job twice, to show what C8
\* rests on
QueueDocumentProcessingTwice(d) ==
  /\ pc' = [pc EXCEPT ![d] = "queued"]
  /\ dispatched' = [dispatched EXCEPT ![d] = @ + 2]

\* queueDocumentProcessing: setImmediate(() => processDocument(id).catch(log))
QueueDocumentProcessing(d) ==
  /\ pc' = [pc EXCEPT ![d] = "queued"]
  /\ dispatched' = [dispatched EXCEPT ![d] = @ + 1]

\* the setImmediate callback runs and calls processDocument
JobStart(d) ==
  /\ pc[d] = "queued"
  /\ pc' = [pc EXCEPT ![d] = FirstStep(build)]
  /\ UNCHANGED <<received, factory, page, asked, quiz, accounts, reg, call, build, now, users, sessions, nSessions, docs, materials,
                 progress, caught, faulted, dispatched, unhandled, generated,
                 seenCompleted, resp>>

\* await ensureDb()
EnsureDb(d) ==
  /\ pc[d] = "ensureDb"
  /\ \/ Advance(d) /\ UNCHANGED <<caught, faulted>>
     \/ Raise(d, "ensureDb", DbInitError)
  /\ UNCHANGED <<received, factory, page, asked, quiz, accounts, reg, call, build, now, users, sessions, nSessions, docs, materials,
                 progress, dispatched, unhandled, generated, seenCompleted, resp>>

\* await updateDocumentStatus(documentId, 'processing')
SetProcessing(d) ==
  /\ pc[d] = "setProcessing"
  /\ \/ /\ docs' = UpdateStatus(docs, d, "processing", <<>>)
        /\ Advance(d)
        /\ UNCHANGED <<caught, faulted>>
     \/ /\ Raise(d, "setProcessing", StorageError)
        /\ UNCHANGED docs
  /\ UNCHANGED <<received, factory, page, asked, quiz, accounts, reg, call, build, now, users, sessions, nSessions, materials, progress,
                 dispatched, unhandled, generated, seenCompleted, resp>>

\* const doc = await findById(documentId); if (!doc) throw new Error(...)
LoadDocument(d) ==
  /\ pc[d] = "load"
  /\ \/ /\ d \in DOMAIN docs
        /\ Advance(d)
        /\ UNCHANGED <<caught, faulted>>
     \/ /\ d \notin DOMAIN docs
        /\ Raise(d, "load", Err(<<"Document not found">>))
     \/ Raise(d, "load", StorageError)
  /\ UNCHANGED <<received, factory, page, asked, quiz, accounts, reg, call, build, now, users, sessions, nSessions, docs, materials,
                 progress, dispatched, unhandled, generated, seenCompleted, resp>>

\* content = [await] extractTextFromBase64(doc.fileData, doc.mimeType)
\* jobs.ts does not await the async extractor: `content` is the promise and
\* a rejection of it has no handler
ExtractText(d) ==
  /\ pc[d] = "extract"
  /\ LET out == ExtractTextFromBase64(docs[d])
     IN IF build = "repo"
        THEN /\ IF out.ok
                THEN Advance(d) /\ UNCHANGED <<caught, faulted>>
                ELSE Raise(d, "extract", out.error)
             /\ UNCHANGED unhandled
        ELSE /\ Advance(d)
             /\ faulted' = [faulted EXCEPT ![d] =
                              IF out.ok THEN @ ELSE @ \cup {"extract"}]
             /\ unhandled' = IF out.ok THEN unhandled ELSE unhandled \cup {d}
             /\ UNCHANGED caught
  /\ UNCHANGED <<received, factory, page, asked, quiz, accounts, reg, call, build, now, users, sessions, nSessions, docs, materials,
                 progress, dispatched, generated, seenCompleted, resp>>

\* a variant of the catch block of generateStudyMaterial that wraps what it
\* caught in a new Error, to show what C24 rests on
RethrowWrapped(e) == Err(<<"Generation failed: ">> \o CatchMessage(e))

\* generateStudyMaterial: catch (error) { ...; throw error }
Rethrow(e) == e

\* const material = await generateStudyMaterial(content): one request to the
\* provider, whose completion is parsed or which throws
GenerateMaterial(d) ==
  /\ pc[d] = "generate"
  /\ asked' = [asked EXCEPT ![d] = @ + 1]
  /\ \/ \E c \in Completions :
          LET out == ParseAIResponse(c)
          IN /\ received' = [received EXCEPT ![d] = Some(c = "empty")]
             /\ IF out.ok
                THEN /\ Advance(d)
                     /\ generated' = [generated EXCEPT ![d] = Some(out.material)]
                     /\ UNCHANGED <<caught, faulted>>
                ELSE /\ Raise(d, "generate", Rethrow(out.error))
                     /\ UNCHANGED generated
     \/ \E e \in ProviderThrows :
          /\ Raise(d, "generate", Rethrow(e))
          /\ UNCHANGED <<generated, received>>
  /\ UNCHANGED <<factory, page, quiz, accounts, reg, call, build, now, users, sessions, nSessions, docs, materials,
                 progress, dispatched, unhandled, seenCompleted, resp>>

\* await studyMaterials.create({documentId: doc.id, ...material})
PersistMaterial(d) ==
  /\ pc[d] = "persist"
  /\ \/ /\ \E m \in generated[d] : materials' = CreateMaterial(materials, d, m)
        /\ Advance(d)
        /\ UNCHANGED <<caught, faulted>>
     \/ /\ Raise(d, "persist", StorageError)
        /\ UNCHANGED materials
  /\ UNCHANGED <<received, factory, page, asked, quiz, accounts, reg, call, build, now, users, sessions, nSessions, docs, progress,
                 dispatched, unhandled, generated, seenCompleted, resp>>

\* await updateDocumentStatus(documentId, 'completed')
SetCompleted(d) ==
  /\ pc[d] = "setCompleted"
  /\ \/ /\ docs' = UpdateStatus(docs, d, "completed", <<>>)
        /\ Advance(d)
        /\ generated' = [generated EXCEPT ![d] = Null]
        /\ UNCHANGED <<caught, faulted>>
     \/ /\ Raise(d, "setCompleted", StorageError)
        /\ UNCHANGED <<docs, generated>>
  /\ UNCHANGED <<received, factory, page, asked, quiz, accounts, reg, call, build, now, users, sessions, nSessions, materials, progress,
                 dispatched, unhandled, seenCompleted, resp>>

\* where processDocument ends when the update to 'failed' raises: the
\* repository version logs the error inside the catch block and returns,
\* jobs.ts lets it reject the promise (the dispatcher's .catch logs it)
AfterFailedUpdateRaised(b) == IF b = "repo" THEN "done" ELSE "rejected"

\* catch (error) { await updateDocumentStatus(id, 'failed', message) }
\* (the repository version first awaits ensureDb() again, inside the same
\* inner try, so a failure of either is the failure of this update)
CatchBlock(d) ==
  /\ pc[d] = "catch"
  /\ \/ /\ \E e \in caught[d] :
             docs' = UpdateStatus(docs, d, "failed", CatchMessage(e))
        /\ pc' = [pc EXCEPT ![d] = "done"]
        /\ UNCHANGED faulted
     \/ /\ pc' = [pc EXCEPT ![d] = AfterFailedUpdateRaised(build)]
        /\ faulted' = [faulted EXCEPT ![d] = @ \cup {"setFailed"}]
        /\ UNCHANGED docs
  /\ caught' = [caught EXCEPT ![d] = Null]
  /\ generated' = [generated EXCEPT ![d] = Null]
  /\ UNCHANGED <<received, factory, page, asked, quiz, accounts, reg, call, build, now, users, sessions, nSessions, materials, progress,
                 dispatched, unhandled, seenCompleted, resp>>

\* the extractor's rejected promise has no handler. What the runtime does
\* with an unhandled rejection is its mode: it warns and the job goes on
\* (no step here), or it raises an uncaught exception and the server process
\* exits; then every job of the process that has not ended is gone.
\* The rejection is detected once the job yields at its next await.
ProcessExit(d) ==
  /\ pc[d] = "generate"
  /\ d \in unhandled
  /\ pc' = [x \in DocIds |->
              IF pc[x] \in {"idle", "done", "rejected", "crashed"}
              THEN pc[x] ELSE "crashed"]
  /\ caught' = [x \in DocIds |-> Null]
  /\ generated' = [x \in DocIds |-> Null]
  /\ UNCHANGED <<received, factory, page, asked, quiz, accounts, reg, call, build, now, users, sessions, nSessions, docs, materials,
                 progress, faulted, dispatched, unhandled, seenCompleted, resp>>

JobStep(d) ==
  \/ JobStart(d)
  \/ EnsureDb(d)
  \/ SetProcessing(d)
  \/ LoadDocument(d)
  \/ ExtractText(d)
  \/ GenerateMaterial(d)
  \/ PersistMaterial(d)
  \/ SetCompleted(d)
  \/ CatchBlock(d)
  \/ ProcessExit(d)

\* ------------------------------------------------------------------ auth
\* createSession: a fresh id, expiresAt = Date.now() + SESSION_DURATION_MS
CreateSession(u) ==
  /\ nSessions < MaxSessions
  /\ nSessions' = nSessions + 1
  /\ sessions' = [x \in DOMAIN sessions \cup {nSessions + 1} |->
                    IF x = nSessions + 1
                    THEN [userId |-> u, expiresAt |-> now + SessionDuration]
                    ELSE sessions[x]]

\* new Date() > session.expiresAt
Expired(s) == now > s.expiresAt

\* a variant of getUserBySessionId without the test of expiresAt, to show
\* what C21 rests on
GetUserBySessionIdAnyAge(sid) ==
  IF sid \in DOMAIN sessions /\ sessions[sid].userId \in users
  THEN Some(sessions[sid].userId)
  ELSE Null

\* getUserBySessionId: the user of a stored, unexpired session, else nothing
GetUserBySessionId(sid) ==
  IF sid \in DOMAIN sessions /\ ~Expired(sessions[sid])
       /\ sessions[sid].userId \in users
  THEN Some(sessions[sid].userId)
  ELSE Null

\* getSessionById deletes the session it finds expired
SessionsAfterLookup(sid) ==
  IF sid \in DOMAIN sessions /\ Expired(sessions[sid])
  THEN [x \in DOMAIN sessions \ {sid} |-> sessions[x]]
  ELSE sessions

\* the input schema of every study procedure: sessionId: z.string().uuid()
ValidSessionInput(sid) == sid # NoSessionId

\* ---------------------------------------------------------------- router
Response(op, code, message, user, docId, body) ==
  [op |-> op, code |-> code, message |-> message, user |-> user,
   docId |-> docId, body |-> body]

BadRequest(op, docId) ==
  Response(op, "BAD_REQUEST", "Input validation failed", Null, docId, <<>>)
Unauthorized(op, docId) ==
  Response(op, "UNAUTHORIZED", "Invalid session", Null, docId, <<>>)
NotFound(op, u, docId) ==
  Response(op, "NOT_FOUND", "Document not found", Some(u), docId, <<>>)

\* a request that fails input validation or requireAuth: nothing is stored
\* or scheduled; only the lookup of an expired session deletes that session
Rejected(op, sid, docId) ==
  /\ \/ /\ ~ValidSessionInput(sid)
        /\ resp' = BadRequest(op, docId)
        /\ UNCHANGED sessions
     \/ /\ ValidSessionInput(sid)
        /\ GetUserBySessionId(sid) = Null
        /\ resp' = Unauthorized(op, docId)
        /\ sessions' = SessionsAfterLookup(sid)
  /\ UNCHANGED <<received, factory, page, asked, quiz, accounts, reg, call, build, now, users, nSessions, docs, materials, progress, pc,
                 caught, faulted, dispatched, unhandled, generated,
                 seenCompleted>>

\* db.insert(documents).values({..., status: 'pending'})
CreateDocument(ds, id, u, up) ==
  [x \in DOMAIN ds \cup {id} |->
     IF x = id
     THEN [userId |-> u, mimeType |-> up.mimeType, parses |-> up.parses,
           status |-> "pending", errorMessage |-> Null]
     ELSE ds[x]]

\* studyRouter.upload
Upload(sid, up) ==
  \/ Rejected("upload", sid, 0)
  \/ /\ ValidSessionInput(sid)
     /\ Cardinality(DOMAIN docs) < MaxDocs
     /\ \E u \in GetUserBySessionId(sid) :
          LET id == Cardinality(DOMAIN docs) + 1
          IN /\ docs' = CreateDocument(docs, id, u, up)
             /\ QueueDocumentProcessing(id)
             /\ resp' = Response("upload", "OK", "", Some(u), id,
                                 <<id, "pending">>)
     /\ UNCHANGED <<received, factory, page, asked, quiz, accounts, reg, call, build, now, users, sessions, nSessions, materials,
                    progress, caught, faulted, unhandled, generated,
                    seenCompleted>>

\* a variant of the test without the comparison of owners, to show what C9
\* rests on
DeniedIfAbsent(ds, docId, u) == docId \notin DOMAIN ds

\* !doc || doc.userId !== user.id
Denied(ds, docId, u) == docId \notin DOMAIN ds \/ ds[docId].userId # u

\* studyRouter.status
Status(sid, docId) ==
  \/ Rejected("status", sid, docId)
  \/ /\ ValidSessionInput(sid)
     /\ \E u \in GetUserBySessionId(sid) :
          IF Denied(docs, docId, u)
          THEN /\ resp' = NotFound("status", u, docId)
               /\ UNCHANGED seenCompleted
          ELSE /\ resp' = Response("status", "OK", "", Some(u), docId,
                                   <<docs[docId].status, docs[docId].errorMessage>>)
               /\ seenCompleted' = IF docs[docId].status = "completed"
                                   THEN seenCompleted \cup {docId}
                                   ELSE seenCompleted
     /\ UNCHANGED <<received, factory, page, asked, quiz, accounts, reg, call, build, now, users, sessions, nSessions, docs, materials,
                    progress, pc, caught, faulted, dispatched, unhandled,
                    generated>>

\* studyRouter.getMaterial
GetMaterial(sid, docId) ==
  \/ Rejected("getMaterial", sid, docId)
  \/ /\ ValidSessionInput(sid)
     /\ \E u \in GetUserBySessionId(sid) :
          IF Denied(docs, docId, u)
          THEN resp' = NotFound("getMaterial", u, docId)
          ELSE resp' = Response("getMaterial", "OK", "", Some(u), docId,
                                <<[id |-> docId, status |-> docs[docId].status],
                                  FindMaterial(materials, docId)>>)
     /\ UNCHANGED <<received, factory, page, asked, quiz, accounts, reg, call, build, now, users, sessions, nSessions, docs, materials,
                    progress, pc, caught, faulted, dispatched, unhandled,
                    generated, seenCompleted>>

\* a variant of the query without its WHERE clause, to show what C11 rests on
UserDocumentsOfAll(ds, u) ==
  LET F[n \in 0..Cardinality(DOMAIN ds)] ==
        IF n = 0 THEN <<>>
        ELSE Append(F[n - 1], [id |-> n, status |-> ds[n].status])
  IN F[Cardinality(DOMAIN ds)]

\* getUserDocuments: the documents of the user, in storage order
UserDocuments(ds, u) ==
  LET F[n \in 0..Cardinality(DOMAIN ds)] ==
        IF n = 0 THEN <<>>
        ELSE IF ds[n].userId = u
             THEN Append(F[n - 1], [id |-> n, status |-> ds[n].status])
             ELSE F[n - 1]
  IN F[Cardinality(DOMAIN ds)]

\* studyRouter.history
History(sid) ==
  \/ Rejected("history", sid, 0)
  \/ /\ ValidSessionInput(sid)
     /\ \E u \in GetUserBySessionId(sid) :
          resp' = Response("history", "OK", "", Some(u), 0, UserDocuments(docs, u))
     /\ UNCHANGED <<received, factory, page, asked, quiz, accounts, reg, call, build, now, users, sessions, nSessions, docs, materials,
                    progress, pc, caught, faulted, dispatched, unhandled,
                    generated, seenCompleted>>

\* studyRouter.saveProgress
SaveProgress(sid, mid, score, total) ==
  \/ Rejected("saveProgress", sid, 0)
  \/ /\ ValidSessionInput(sid)
     /\ Cardinality(DOMAIN progress) < MaxProgress
     /\ \E u \in GetUserBySessionId(sid) :
          LET id == Cardinality(DOMAIN progress) + 1
          IN /\ progress' = [x \in DOMAIN progress \cup {id} |->
                               IF x = id
                               THEN [userId |-> u, studyMaterialId |-> mid,
                                     score |-> score, totalQuestions |-> total]
                               ELSE progress[x]]
             /\ resp' = Response("saveProgress", "OK", "", Some(u), 0, <<id>>)
     /\ UNCHANGED <<received, factory, page, asked, quiz, accounts, reg, call, build, now, users, sessions, nSessions, docs, materials,
                    pc, caught, faulted, dispatched, unhandled, generated,
                    seenCompleted>>

\* ---- Numbers ----
\* score / totalQuestions and (...) * 100 are operations on IEEE 754 doubles,
\* each rounded to a significand of 53 bits, to nearest, ties to even.  A
\* positive double is [m, e]: m its significand, 53 bits, most significant
\* first and 1, and e the exponent of that bit; zero has no bits.
SignificandBits == 53

Zero == [m |-> <<>>, e |-> 0]

Front(bits) == SubSeq(bits, 1, Len(bits) - 1)

Last(bits) == bits[Len(bits)]

Zeros(n) == [i \in 1..n |-> 0]

\* 2^n modulo d
RECURSIVE Pow2Mod(_, _)
Pow2Mod(n, d) ==
  IF n = 0 THEN 1 % d
  ELSE LET h == Pow2Mod(n \div 2, d)
       IN (h * h * (IF n % 2 = 1 THEN 2 ELSE 1)) % d

\* what is left of r / d, r < d, after n digits behind the binary point
DivRem(r, d, n) == (r * Pow2Mod(n, d)) % d

\* the first n digits of r / d behind the binary point
DivBits(r, d, n) ==
  [k \in 1..n |-> IF 2 * DivRem(r, d, k - 1) >= d THEN 1 ELSE 0]

\* n / d brought into [1, 2) by powers of two
RECURSIVE Scale(_, _, _)
Scale(n, d, e) ==
  IF n < d THEN Scale(2 * n, d, e - 1)
  ELSE IF n >= 2 * d THEN Scale(n, 2 * d, e + 1)
  ELSE [n |-> n, d |-> d, e |-> e]

\* bits + 1: the ones at the end become zeros and the zero before them one
Increment(bits) ==
  LET zeros == {i \in 1..Len(bits) : bits[i] = 0}
  IN IF zeros = {} THEN <<1>> \o Zeros(Len(bits))
     ELSE LET k == CHOOSE i \in zeros : \A j \in zeros : j <= i
          IN [i \in 1..Len(bits) |->
                IF i < k THEN bits[i] ELSE IF i = k THEN 1 ELSE 0]

\* the double nearest to the number whose leading bits are `bits`, the
\* leading one of exponent e, and whose remainder compares to half a unit
\* in the last place as `rest` says ("below", "half", "above")
RoundToNearestEven(bits, e, rest) ==
  LET up == rest = "above" \/ (rest = "half" /\ Last(bits) = 1)
      m == IF up THEN Increment(bits) ELSE bits
  IN IF Len(m) > SignificandBits
     THEN [m |-> SubSeq(m, 1, SignificandBits), e |-> e + 1]
     ELSE [m |-> m, e |-> e]

\* score / totalQuestions for integers score >= 0, totalQuestions >= 1
Divide(score, total) ==
  IF score = 0 THEN Zero
  ELSE LET q == Scale(score, total, 0)
           r == DivRem(q.n - q.d, q.d, SignificandBits - 1)
           rest == IF 2 * r > q.d THEN "above"
                   ELSE IF 2 * r = q.d THEN "half" ELSE "below"
       IN RoundToNearestEven(<<1>> \o DivBits(q.n - q.d, q.d, SignificandBits - 1),
                             q.e, rest)

\* the number whose digits are bits, fewer than 31 of them
RECURSIVE Natural(_)
Natural(bits) ==
  IF bits = <<>> THEN 0
  ELSE IF Len(bits) = 1 THEN bits[1]
  ELSE LET h == Len(bits) \div 2
       IN Natural(SubSeq(bits, 1, h)) * 2^(Len(bits) - h)
            + Natural(SubSeq(bits, h + 1, Len(bits)))

\* the n digits of v < 2^n
ToBits(v, n) == [i \in 1..n |-> (v \div 2^(n - i)) % 2]

\* 25 m for a significand m, computed in three limbs of at most LimbBits
\* bits, the lowest first, each passing its carry to the next
LimbBits == 20

Times25(m) ==
  LET n == Len(m)
      low == Natural(SubSeq(m, n - LimbBits + 1, n))
      mid == Natural(SubSeq(m, n - 2 * LimbBits + 1, n - LimbBits))
      high == Natural(SubSeq(m, 1, n - 2 * LimbBits))
      p0 == 25 * low
      p1 == 25 * mid + p0 \div 2^LimbBits
      p2 == 25 * high + p1 \div 2^LimbBits
  IN ToBits(p2, n - 2 * LimbBits + 5) \o ToBits(p1 % 2^LimbBits, LimbBits)
       \o ToBits(p0 % 2^LimbBits, LimbBits)

\* bits without the zeros in front
StripZeros(bits) ==
  LET ones == {i \in 1..Len(bits) : bits[i] = 1}
  IN IF ones = {} THEN <<>>
     ELSE SubSeq(bits, CHOOSE i \in ones : \A j \in ones : i <= j, Len(bits))

\* how the discarded bits compare to half a unit in the last place
Discarded(tail) ==
  IF tail = <<>> \/ tail[1] = 0 THEN "below"
  ELSE IF \A i \in 2..Len(tail) : tail[i] = 0 THEN "half" ELSE "above"

\* x * 100: the exact product is 25 m with exponent two more, rounded to a
\* double
Times100(x) ==
  IF x = Zero THEN Zero
  ELSE LET p == StripZeros(Times25(x.m))
           growth == Len(p) - SignificandBits
       IN RoundToNearestEven(SubSeq(p, 1, SignificandBits), x.e + 2 + growth,
                             Discarded(SubSeq(p, SignificandBits + 1, Len(p))))

\* Math.round(x) for 0 <= x < 2^31: the integer nearest to x, the upper one
\* when x is half way
MathRound(x) ==
  IF x = Zero \/ x.e < -1 THEN 0
  ELSE IF x.e = -1 THEN 1
  ELSE Natural(SubSeq(x.m, 1, x.e + 1)) + x.m[x.e + 2]

\* the percentage of the exact quotient, the upper integer when half way
PercentageExact(score, total) == (200 * score + total) \div (2 * total)

\* Math.round((score / totalQuestions) * 100)
Percentage(score, total) == MathRound(Times100(Divide(score, total)))

\* the rows the getProgress query selects: those of the user, or, when a
\* studyMaterialId is given, those of that study material
ProgressRows(ps, u, midFilter) ==
  IF midFilter = Null
  THEN {x \in DOMAIN ps : ps[x].userId = u}
  ELSE {x \in DOMAIN ps : ps[x].studyMaterialId \in midFilter}

\* studyRouter.getProgress
GetProgress(sid, midFilter) ==
  \/ Rejected("getProgress", sid, 0)
  \/ /\ ValidSessionInput(sid)
     /\ \E u \in GetUserBySessionId(sid) :
          resp' = Response("getProgress", "OK", "", Some(u), 0,
                    [x \in ProgressRows(progress, u, midFilter) |->
                       [score |-> progress[x].score,
                        totalQuestions |-> progress[x].totalQuestions,
                        percentage |-> Percentage(progress[x].score,
                                                  progress[x].totalQuestions)]])
     /\ UNCHANGED <<received, factory, page, asked, quiz, accounts, reg, call, build, now, users, sessions, nSessions, docs, materials,
                    progress, pc, caught, faulted, dispatched, unhandled,
                    generated, seenCompleted>>

\* authRouter.me: user null without a sessionId or when the session does
\* not resolve, else the user; the lookup deletes a session it finds expired
Me(sid) ==
  /\ resp' = Response("me", "OK", "",
                      IF ValidSessionInput(sid) THEN GetUserBySessionId(sid)
                      ELSE Null, 0, <<>>)
  /\ sessions' = IF ValidSessionInput(sid) THEN SessionsAfterLookup(sid)
                 ELSE sessions
  /\ UNCHANGED <<received, factory, page, asked, quiz, accounts, reg, call, build, now, users, nSessions, docs,
                 materials, progress, pc, caught, faulted, dispatched,
                 unhandled, generated, seenCompleted>>

\* authRouter.register / authRouter.login: the user exists afterwards and
\* holds a new session
SignIn(u) ==
  /\ users' = users \cup {u}
  /\ CreateSession(u)
  /\ UNCHANGED <<received, factory, page, asked, quiz, accounts, reg, call, build, now, docs, materials, progress, pc, caught, faulted,
                 dispatched, unhandled, generated, seenCompleted, resp>>

\* time passes
Tick ==
  /\ now < MaxTime
  /\ now' = now + 1
  /\ UNCHANGED <<received, factory, page, asked, quiz, accounts, reg, call, build, users, sessions, nSessions, docs, materials, progress,
                 pc, caught, faulted, dispatched, unhandled, generated,
                 seenCompleted, resp>>

\* ------------------------------------------------------------- QuizMode
\* A question is its correctAnswerIndex.  The component's state is what
\* useState holds; completed, answers and attempt record what happened: the
\* calls of onComplete, the options chosen since the last restart, and the
\* number of the attempt.
Options == 0..1

Mount(questions) ==
  [questions |-> questions, currentQuestionIdx |-> 0, selectedOption |-> Null,
   isAnswered |-> FALSE, score |-> 0, showResults |-> FALSE,
   completed |-> <<>>, answers |-> <<>>, attempt |-> 1]

\* no questions: the component renders 'No quiz questions available'
NoQuiz == Mount(<<>>)

\* questions[currentQuestionIdx] is there
HasQuestion(q) == q.currentQuestionIdx < Len(q.questions)

\* questions[currentQuestionIdx].correctAnswerIndex
CorrectAnswerIndex(q) == q.questions[q.currentQuestionIdx + 1]

\* what is rendered
Screen(q) ==
  IF ~HasQuestion(q) THEN "empty"
  ELSE IF q.showResults THEN "results" ELSE "question"

\* score + (selectedOption === question.correctAnswerIndex ? 1 : 0)
FinalScore(q) ==
  q.score + (IF q.selectedOption = Some(CorrectAnswerIndex(q)) THEN 1 ELSE 0)

\* a click on an option; the buttons are disabled once answered
HandleOptionSelect(index) ==
  /\ Screen(quiz) = "question"
  /\ ~quiz.isAnswered
  /\ quiz' = [quiz EXCEPT !.selectedOption = Some(index),
                          !.isAnswered = TRUE,
                          !.score = IF index = CorrectAnswerIndex(quiz)
                                    THEN @ + 1 ELSE @,
                          !.answers = Append(@, index)]
  /\ UNCHANGED <<store, call, page, factory>>

\* a click on 'Next Question' or 'Finish Quiz', rendered once answered
HandleNext ==
  /\ Screen(quiz) = "question"
  /\ quiz.isAnswered
  /\ quiz' = IF quiz.currentQuestionIdx < Len(quiz.questions) - 1
             THEN [quiz EXCEPT !.currentQuestionIdx = @ + 1,
                               !.selectedOption = Null,
                               !.isAnswered = FALSE]
             ELSE [quiz EXCEPT !.showResults = TRUE,
                               !.completed =
                                  Append(@, [score |-> FinalScore(quiz),
                                             total |-> Len(quiz.questions)])]
  /\ UNCHANGED <<store, call, page, factory>>

\* a click on 'Try Again' on the results screen
HandleRestart ==
  /\ Screen(quiz) = "results"
  /\ quiz.attempt < MaxAttempts
  /\ quiz' = [quiz EXCEPT !.currentQuestionIdx = 0, !.selectedOption = Null,
                          !.isAnswered = FALSE, !.score = 0,
                          !.showResults = FALSE,
                          !.answers = <<>>, !.attempt = @ + 1]
  /\ UNCHANGED <<store, call, page, factory>>

\* ------------------------------------------------------------- register
\* A register call runs in steps, one for each await of the handler that
\* reads or writes the store; between two steps of a call the steps of
\* other calls run.
RegisterCalls == 1..MaxRegisters

Idle == [pc |-> "idle", email |-> "", user |-> Null, code |-> ""]

NoRegistrations == [c \in RegisterCalls |-> Idle]

\* addresses that pass z.string().email(): two that differ in case only, and
\* another one
Emails == {"ann@x.io", "Ann@x.io", "bob@x.io"}

\* String.prototype.toLowerCase on these addresses
ToLowerCase(email) == IF email = "Ann@x.io" THEN "ann@x.io" ELSE email

\* generateId / the database's default: an id no row has
UserIds == <<"u1", "u2", "u3", "u4">>

\* findUserByEmail: the rows the query selects.  The drizzle build compares
\* the stored address with the lower-cased input; the repository of the
\* JSON adapter, which is used when DB_ADAPTER is not set, lower-cases both
FindUserByEmail(rows, email) ==
  IF build = "drizzle"
  THEN {i \in DOMAIN rows : rows[i].email = ToLowerCase(email)}
  ELSE {i \in DOMAIN rows : ToLowerCase(rows[i].email) = ToLowerCase(email)}

\* the users table declares email unique in the drizzle schema; the JSON
\* store pushes the row
EmailIsUnique == build = "drizzle"

\* authRouter.register up to the answer of findUserByEmail: CONFLICT if a
\* user has the address, else the call goes on to createUser
Register(c, email) ==
  /\ reg[c].pc = "idle"
  /\ reg' = [reg EXCEPT ![c] =
               IF FindUserByEmail(accounts, email) # {}
               THEN [Idle EXCEPT !.pc = "failed", !.email = email,
                                 !.code = "CONFLICT"]
               ELSE [Idle EXCEPT !.pc = "createUser", !.email = email]]
  /\ UNCHANGED <<received, factory, page, asked, quiz, call, build, now, users, sessions, nSessions, docs,
                 materials, progress, pc, caught, faulted, dispatched,
                 unhandled, generated, seenCompleted, resp, accounts>>

\* createUser, after the password is hashed: the row is inserted with the
\* address in lower case, or the insert violates the unique constraint and
\* the call fails with the database's error
CreateUser(c) ==
  /\ reg[c].pc = "createUser"
  /\ LET email == ToLowerCase(reg[c].email)
         id == UserIds[Len(accounts) + 1]
     IN IF EmailIsUnique /\ \E i \in DOMAIN accounts : accounts[i].email = email
        THEN /\ reg' = [reg EXCEPT ![c].pc = "failed",
                                   ![c].code = "INTERNAL_SERVER_ERROR"]
             /\ UNCHANGED <<accounts, users>>
        ELSE /\ accounts' = Append(accounts, [id |-> id, email |-> email])
             /\ users' = users \cup {id}
             /\ reg' = [reg EXCEPT ![c].pc = "createSession",
                                   ![c].user = Some(id)]
  /\ UNCHANGED <<received, factory, page, asked, quiz, call, build, now, sessions, nSessions, docs, materials,
                 progress, pc, caught, faulted, dispatched, unhandled,
                 generated, seenCompleted, resp>>

\* createSession(user.id), and the answer
RegisterSession(c) ==
  /\ reg[c].pc = "createSession"
  /\ \E u \in reg[c].user : CreateSession(u)
  /\ reg' = [reg EXCEPT ![c].pc = "done", ![c].code = "OK"]
  /\ UNCHANGED <<received, factory, page, asked, quiz, call, build, now, users, docs, materials, progress, pc,
                 caught, faulted, dispatched, unhandled, generated,
                 seenCompleted, resp, accounts>>

\* ------------------------------------------------------------ StudyPage
NoResponse == Response("none", "NONE", "", Null, 0, <<>>)
NoCall == [fn |-> "none"]

\* The page of /study/$id: `stored` is localStorage's sessionId, `id` the
\* route parameter; statusData and materialData are the data of the two
\* queries (kept when a later fetch fails); `wait` is the time since the
\* status query last settled; `polls` flips at every status request

\* return 3000
RefetchMs == 3000

NoPage ==
  [mounted |-> FALSE, stored |-> Null, id |-> 0, sessionId |-> Null,
   away |-> FALSE, inflight |-> "none", statusFetched |-> FALSE,
   statusData |-> Null, wait |-> 0, polls |-> 0, repolled |-> FALSE,
   materialFetched |-> FALSE, materialData |-> Null]

\* a variant of refetchInterval that never returns false, to show what C25
\* rests on
RefetchIntervalAlways(data) == Some(RefetchMs)

\* refetchInterval: 3000 while the data say pending or processing, else false
RefetchInterval(data) ==
  IF data = Some("pending") \/ data = Some("processing")
  THEN Some(RefetchMs)
  ELSE Null

\* enabled: !!sessionId
StatusEnabled == page.sessionId # Null

\* enabled: !!sessionId && statusData?.status === 'completed'
MaterialEnabled == page.sessionId # Null /\ page.statusData = Some("completed")

\* useEffect: take the stored sessionId, or leave for the home page
PageMount ==
  /\ ~page.mounted
  /\ page' = [page EXCEPT !.mounted = TRUE, !.sessionId = page.stored,
                          !.away = (page.stored = Null)]
  /\ UNCHANGED <<store, call, quiz, factory>>

\* the request leaves: no response is on the wire until the router answers
Send ==
  /\ resp' = NoResponse
  /\ UNCHANGED <<received, factory, asked, quiz, accounts, reg, call, build, now, users,
                 sessions, nSessions, docs, materials, progress, pc, caught,
                 faulted, dispatched, unhandled, generated, seenCompleted>>

\* the status query fetches when it is first enabled and whenever its
\* refetch interval has elapsed
StatusRequest ==
  /\ page.mounted /\ StatusEnabled /\ page.inflight = "none"
  /\ \/ ~page.statusFetched
     \/ page.statusFetched /\ RefetchInterval(page.statusData) = Some(page.wait)
  /\ page' = [page EXCEPT !.inflight = "status", !.statusFetched = TRUE,
                          !.wait = 0, !.polls = 1 - @,
                          !.repolled = @ \/ page.statusFetched]
  /\ Send

\* the status query settles: an error leaves the data as they were
StatusSettled ==
  /\ page.inflight = "status" /\ resp # NoResponse
  /\ page' = [page EXCEPT !.inflight = "none", !.wait = 0,
                          !.statusData = IF resp.code = "OK"
                                         THEN Some(resp.body[1]) ELSE @]
  /\ UNCHANGED <<store, call, quiz, factory>>

\* the getMaterial query fetches once it is enabled
MaterialRequest ==
  /\ page.mounted /\ MaterialEnabled /\ page.inflight = "none"
  /\ ~page.materialFetched
  /\ page' = [page EXCEPT !.inflight = "getMaterial", !.materialFetched = TRUE]
  /\ Send

MaterialSettled ==
  /\ page.inflight = "getMaterial" /\ resp # NoResponse
  /\ page' = [page EXCEPT !.inflight = "none",
                          !.materialData = IF resp.code = "OK"
                                           THEN Some(resp.body) ELSE @]
  /\ UNCHANGED <<store, call, quiz, factory>>

\* time passes on the page while the status query has an interval
Elapse ==
  /\ page.mounted /\ page.inflight = "none"
  /\ RefetchInterval(page.statusData) # Null
  /\ page.wait < RefetchMs
  /\ page' = [page EXCEPT !.wait = @ + RefetchMs \div TimerSteps]
  /\ UNCHANGED <<store, call, quiz, factory>>

\* the router answers the request that is on its way
Serve ==
  /\ page.inflight # "none" /\ resp = NoResponse
  /\ \E sid \in page.sessionId :
       IF page.inflight = "status"
       THEN Status(sid, page.id)
       ELSE GetMaterial(sid, page.id)

\* ------------------------------------------------------------ db factory
\* dbInstance and _syncDb hold the number of an instance or nothing;
\* `created` counts the instances constructed, inits[i] the calls of init()
\* on instance i, `ready` holds the instances whose init() has completed;
\* each caller of initDatabase has its position, the instance it awaits the
\* init() of, and what initDatabase returned to it
Callers == 1..MaxCallers

NoFactory ==
  [dbInstance |-> Null, syncDb |-> Null, created |-> 0,
   inits |-> [i \in Callers |-> 0], ready |-> {},
   caller |-> [c \in Callers |-> [pc |-> "idle", mine |-> Null, got |-> Null]]]

\* initDatabase: const db = await getDatabase(); _syncDb = db; return db
Returned(f, c) ==
  [f EXCEPT !.syncDb = f.dbInstance,
            !.caller[c] = [pc |-> "returned", mine |-> Null,
                           got |-> f.dbInstance]]

\* getDatabase is entered: with no instance it awaits createDatabase(), which
\* awaits the import of the adapter; else it returns the instance at once
GetDatabase(c) ==
  /\ factory.caller[c].pc = "idle"
  /\ factory' = IF factory.dbInstance = Null
                THEN [factory EXCEPT !.caller[c].pc = "creating"]
                ELSE Returned(factory, c)
  /\ UNCHANGED <<store, call, quiz, page>>

\* dbInstance = await createDatabase(); then init() is called and awaited
CreateDatabase(c) ==
  /\ factory.caller[c].pc = "creating"
  /\ LET i == factory.created + 1
     IN factory' = [factory EXCEPT !.created = i,
                                   !.dbInstance = Some(i),
                                   !.inits[i] = @ + 1,
                                   !.caller[c].pc = "initializing",
                                   !.caller[c].mine = Some(i)]
  /\ UNCHANGED <<store, call, quiz, page>>

\* init() completes: getDatabase returns dbInstance as it is now; or init()
\* throws: initDatabase logs and rethrows, and dbInstance stays set
InitSettles(c) ==
  /\ factory.caller[c].pc = "initializing"
  /\ \/ factory' = Returned([factory EXCEPT !.ready =
                                @ \cup factory.caller[c].mine], c)
     \/ factory' = [factory EXCEPT !.caller[c] =
                      [pc |-> "failed", mine |-> Null, got |-> Null]]
  /\ UNCHANGED <<store, call, quiz, page>>

\* ----------------------------------------------------------- the system
\* nothing stored, nothing running
EmptyStore ==
  /\ build \in Builds
  /\ now = 0
  /\ users = {}
  /\ sessions = <<>>
  /\ nSessions = 0
  /\ docs = <<>>
  /\ materials = <<>>
  /\ progress = <<>>
  /\ pc = [d \in DocIds |-> "idle"]
  /\ caught = [d \in DocIds |-> Null]
  /\ faulted = [d \in DocIds |-> {}]
  /\ dispatched = [d \in DocIds |-> 0]
  /\ unhandled = {}
  /\ generated = [d \in DocIds |-> Null]
  /\ seenCompleted = {}
  /\ resp = NoResponse
  /\ accounts = <<>>
  /\ reg = NoRegistrations
  /\ asked = [d \in DocIds |-> 0]
  /\ received = [d \in DocIds |-> Null]

InitEmpty == EmptyStore /\ call = NoCall /\ quiz = NoQuiz /\ page = NoPage /\ factory = NoFactory

\* the state after user u1 has registered: session 1 is theirs
Init ==
  /\ build \in Builds
  /\ now = 0
  /\ users = {"u1"}
  /\ sessions = <<[userId |-> "u1", expiresAt |-> SessionDuration]>>
  /\ nSessions = 1
  /\ docs = <<>>
  /\ materials = <<>>
  /\ progress = <<>>
  /\ pc = [d \in DocIds |-> "idle"]
  /\ caught = [d \in DocIds |-> Null]
  /\ faulted = [d \in DocIds |-> {}]
  /\ dispatched = [d \in DocIds |-> 0]
  /\ unhandled = {}
  /\ generated = [d \in DocIds |-> Null]
  /\ seenCompleted = {}
  /\ resp = NoResponse
  /\ call = NoCall
  /\ quiz = NoQuiz
  /\ page = NoPage /\ factory = NoFactory
  /\ accounts = <<>>
  /\ reg = NoRegistrations
  /\ asked = [d \in DocIds |-> 0]
  /\ received = [d \in DocIds |-> Null]

Job == \E d \in DocIds : JobStep(d)

\* Spec: uploads by the signed-in user and by a client that sends no
\* sessionId, and the jobs they dispatch, in every interleaving
Uploading == \E sid \in {NoSessionId, 1}, up \in Uploads : Upload(sid, up)

Next == Job \/ Uploading

Spec == Init /\ [][Next]_vars

\* FairSpec: the event loop runs every job step that is ready
FairUploading ==
  /\ Cardinality(DOMAIN docs) < MaxFairDocs
  /\ Uploading

FairNext == Job \/ FairUploading

FairSpec ==
  Init /\ [][FairNext]_vars /\ \A d \in DocIds : WF_vars(JobStep(d))

\* QuerySpec: a client that uploads and then polls status and getMaterial
QueryDocInputs == 1..(MaxQueryDocs + 1)

QueryUploading ==
  /\ Cardinality(DOMAIN docs) < MaxQueryDocs
  /\ Uploading

Polling ==
  \E sid \in {NoSessionId, 1}, docId \in QueryDocInputs :
    Status(sid, docId) \/ GetMaterial(sid, docId)

QueryNext == Job \/ QueryUploading \/ Polling

QuerySpec == Init /\ [][QueryNext]_vars

\* OwnerSpec: the router from an empty store: users sign in, upload and ask
\* for documents of their own, of others and for ids never assigned; the
\* dispatched jobs are not scheduled
OwnerUploading ==
  /\ Cardinality(DOMAIN docs) < MaxQueryDocs
  /\ \E sid \in SessionInputs :
       Upload(sid, [mimeType |-> MimePdf, parses |-> TRUE])

Asking ==
  \E sid \in SessionInputs, docId \in QueryDocInputs :
    Status(sid, docId) \/ GetMaterial(sid, docId)

SigningIn == \E u \in Users : SignIn(u)

OwnerNext == OwnerUploading \/ Asking \/ SigningIn

OwnerSpec == InitEmpty /\ [][OwnerNext]_vars

\* AccessSpec: OwnerSpec with the clock, history and quiz progress
\* the quiz results saved: 1 of 2 questions right, for study material 1
ProgressInputs == {[studyMaterialId |-> 1, score |-> 1, totalQuestions |-> 2]}

Listing ==
  \E sid \in SessionInputs :
    \/ History(sid)
    \/ \E f \in {Null} \cup {Some(p.studyMaterialId) : p \in ProgressInputs} :
         GetProgress(sid, f)

Saving ==
  \E sid \in SessionInputs, p \in ProgressInputs :
    SaveProgress(sid, p.studyMaterialId, p.score, p.totalQuestions)

AccessNext == OwnerUploading \/ Asking \/ Listing \/ Saving \/ SigningIn \/ Tick

AccessSpec == InitEmpty /\ [][AccessNext]_vars

\* ProgressSpec: the signed-in user saves results of quizzes of several
\* lengths, every score from none right to all right, and reads them back
QuizLengths == {3, 8, 10, 40}

QuizResults ==
  UNION {{[score |-> n, totalQuestions |-> t] : n \in 0..t} : t \in QuizLengths}

Scoring ==
  \E sid \in SessionInputs, q \in QuizResults :
    SaveProgress(sid, 1, q.score, q.totalQuestions)

Reviewing ==
  \E sid \in SessionInputs, f \in {Null, Some(1)} : GetProgress(sid, f)

ProgressNext == Scoring \/ Reviewing

ProgressSpec == Init /\ [][ProgressNext]_vars

\* HistorySpec: users sign in, upload and list their documents
HistoryUploading ==
  \E sid \in SessionInputs :
    Upload(sid, [mimeType |-> MimePdf, parses |-> TRUE])

Recalling == \E sid \in SessionInputs : History(sid)

HistoryNext == HistoryUploading \/ Recalling \/ SigningIn

HistorySpec == InitEmpty /\ [][HistoryNext]_vars

\* PageSpec: the signed-in user uploads a file and a StudyPage is opened on
\* document 1 or on an id never assigned, with the session of the user, a
\* session id unknown to the server, or none in localStorage; the job runs,
\* time passes, and the browser and the router take every step that is ready
PageIds == 1..2
StoredSessionIds == {Null, Some(1), Some(MaxSessions + 1)}

PageInit ==
  /\ build \in Builds
  /\ now = 0
  /\ users = {"u1"}
  /\ sessions = <<[userId |-> "u1", expiresAt |-> SessionDuration]>>
  /\ nSessions = 1
  /\ docs = <<>>
  /\ materials = <<>>
  /\ progress = <<>>
  /\ pc = [d \in DocIds |-> "idle"]
  /\ caught = [d \in DocIds |-> Null]
  /\ faulted = [d \in DocIds |-> {}]
  /\ dispatched = [d \in DocIds |-> 0]
  /\ unhandled = {}
  /\ generated = [d \in DocIds |-> Null]
  /\ seenCompleted = {}
  /\ resp = NoResponse
  /\ call = NoCall
  /\ quiz = NoQuiz
  /\ accounts = <<>>
  /\ reg = NoRegistrations
  /\ asked = [d \in DocIds |-> 0]
  /\ received = [d \in DocIds |-> Null]
  /\ factory = NoFactory
  /\ page \in {[NoPage EXCEPT !.stored = s, !.id = d] :
                 s \in StoredSessionIds, d \in PageIds}

\* resp holds one response: the upload is not sent while a query is under way
PageUploading ==
  /\ docs = <<>>
  /\ page.inflight = "none"
  /\ Uploading

Browser ==
  \/ PageMount
  \/ StatusRequest
  \/ StatusSettled
  \/ MaterialRequest
  \/ MaterialSettled
  \/ Elapse

PageNext == Job \/ PageUploading \/ Tick \/ Browser \/ Serve

PageSpec ==
  /\ PageInit
  /\ [][PageNext]_vars
  /\ WF_vars(Browser)
  /\ WF_vars(Serve)

\* FactorySpec: the start-up of the router and the jobs call initDatabase,
\* each call running as far as its next await before another goes on
InitDatabase ==
  \E c \in Callers : GetDatabase(c) \/ CreateDatabase(c) \/ InitSettles(c)

FactorySpec == InitEmpty /\ [][InitDatabase]_vars

\* SessionSpec: users sign in, time passes, and sessions are looked up by
\* me and by history
WhoAmI == \E sid \in SessionInputs : Me(sid)

SessionNext == SigningIn \/ Tick \/ WhoAmI \/ Recalling

SessionSpec == Init /\ [][SessionNext]_vars

\* CatchSpec: the catch block of a job, for every value the try block may
\* have thrown: the errors of the steps, an Error whose message is the empty
\* string, and a value that is not an Error.  The document is as the try
\* block left it, pending or processing.
Thrown ==
  { StorageError, DbInitError, OcrError, Err(<<"Document not found">>),
    Err(<<"Failed to parse PDF: ">> \o CatchMessage(PdfParserError)),
    Err(<<>>), NonError } \cup ProviderThrows

CatchInit ==
  /\ build \in Builds
  /\ now = 0
  /\ users = {"u1"}
  /\ sessions = <<[userId |-> "u1", expiresAt |-> SessionDuration]>>
  /\ nSessions = 1
  /\ \E up \in Uploads, status \in {"pending", "processing"} :
       docs = <<[CreateDocument(<<>>, 1, "u1", up)[1] EXCEPT !.status = status]>>
  /\ materials = <<>>
  /\ progress = <<>>
  /\ pc = [d \in DocIds |-> IF d = 1 THEN "catch" ELSE "idle"]
  /\ \E e \in Thrown : caught = [d \in DocIds |-> IF d = 1 THEN Some(e) ELSE Null]
  /\ faulted = [d \in DocIds |-> {}]
  /\ dispatched = [d \in DocIds |-> IF d = 1 THEN 1 ELSE 0]
  /\ unhandled = {}
  /\ generated = [d \in DocIds |-> Null]
  /\ seenCompleted = {}
  /\ resp = NoResponse
  /\ call = NoCall
  /\ quiz = NoQuiz
  /\ page = NoPage /\ factory = NoFactory
  /\ accounts = <<>>
  /\ reg = NoRegistrations
  /\ asked = [d \in DocIds |-> 0]
  /\ received = [d \in DocIds |-> Null]

Catching == \E d \in DocIds : CatchBlock(d)

CatchSpec == CatchInit /\ [][Catching]_vars

\* ExtractSpec: one call of the extractor, for every text and type below
\* texts about maxChars long: all "A", or "A"s followed by a short tail
Texts ==
  {<<>>, <<Run("A", 1)>>, <<Run("A", 2 * MaxChars)>>}
    \cup {<<Run("A", n)>> : n \in (MaxChars - 1)..(MaxChars + MaxTail)}
    \cup {<<Run("A", n), Run(ch, k)>> :
            n \in {MaxChars - 1, MaxChars}, ch \in {"B", "LF"}, k \in 1..MaxTail}

Base64Inputs == [text : Texts, parses : BOOLEAN]

\* declared types, cut into pieces around the words the extractor looks for
MimeTypes ==
  { MimePdf, MimePdfCharset, MimePng,
    <<"image", "/jpeg">>, <<"text/plain">>, <<"text/html">>,
    <<"application/x-", "pdf">>, <<"image", "/x-", "pdf">>,
    <<"application/PDF">>, <<>> }

ExtractInit ==
  /\ EmptyStore
  /\ quiz = NoQuiz
  /\ page = NoPage /\ factory = NoFactory
  /\ call \in {[fn |-> "extract", base64Data |-> b, mimeType |-> m,
                done |-> FALSE, out |-> Extracted(<<>>)] :
                 b \in Base64Inputs, m \in MimeTypes}

Extracting ==
  /\ call.fn = "extract"
  /\ ~call.done
  /\ call' = [call EXCEPT !.done = TRUE,
                          !.out = ExtractFrom(call.base64Data, call.mimeType)]
  /\ UNCHANGED <<store, quiz, page, factory>>

ExtractSpec == ExtractInit /\ [][Extracting]_vars

\* NormalizeSpec: one call of parseAIResponse, for every completion below
\* JSON objects, as JSON.stringify writes them
Objects ==
  { <<"{", "}">>,
    <<"{", "k:", "s", "}">>,
    <<"{", "k:", "s", ",", "k:", "{", "k:", "42", "}", ",", "k:", "[]", "}">>,
    <<"{", "k:", "q", "}", "SP", "{", "q", ",", "k:", "q", "fence", "q", "}">> }

\* the same object written with line feeds between its tokens
RECURSIVE Spread(_)
Spread(text) ==
  IF Len(text) <= 1 THEN text
  ELSE IF Head(text) = "q" THEN text
  ELSE <<Head(text), "LF", "SP">> \o Spread(Tail(text))

Blanks == {<<>>, <<"LF">>, <<"SP", "LF", "LF", "TAB">>}

Fenced ==
  UNION { { [kind |-> "fenced", object |-> o, body |-> b,
             text |-> w[1] \o <<Fence>> \o tag \o w[2] \o b \o w[3]
                        \o <<Fence>> \o w[4]] :
              b \in {o, Spread(o)},
              tag \in {<<>>} \cup {<<t>> : t \in Tags},
              w \in [1..4 -> Blanks] } : o \in Objects }

\* prose without a brace in it
Prose ==
  { <<>>, <<"Sorry", "SP">>, <<"LF", "Hope", "SP", "this", "SP", "helps!">>,
    <<"Here:", "LF", Fence, "json", "LF">>, <<"LF", Fence>> }

InProse ==
  { [kind |-> "prose", object |-> o, body |-> o, text |-> pre \o o \o post] :
      o \in Objects, pre \in Prose, post \in Prose }

\* completions without a block in braces, and blocks that are not JSON
Junk ==
  { [kind |-> "junk", object |-> <<>>, body |-> <<>>, text |-> t] :
      t \in { <<>>, <<"SP", "LF", "TAB">>, <<"Sorry", "SP", "no">>,
              <<"}", "SP", "{">>, <<"{">>, <<"}">>,
              <<Fence, "json", "LF", "Sorry", "LF", Fence>>,
              <<"42">>, <<"null">>, <<"[]">>, <<"SP", "s", "LF">>,
              <<"{", "summary:", "SP", "no", "}">>,
              <<"Sorry", "SP", "{", "summary:", "SP", "no", "}", "LF">>,
              <<"{", "k:", "s", ",", "}">>,
              <<"{", "k:", "s", "}", "SP", "{", "k:", "s", "}">> } }

NormalizeInit ==
  /\ EmptyStore
  /\ quiz = NoQuiz
  /\ page = NoPage /\ factory = NoFactory
  /\ call \in {[fn |-> "parse", input |-> c, done |-> FALSE, cleaned |-> <<>>,
                out |-> JsonParse(<<>>)] : c \in Fenced \cup InProse \cup Junk}

Parsing ==
  /\ call.fn = "parse"
  /\ ~call.done
  /\ call' = [call EXCEPT !.done = TRUE,
                          !.cleaned = CleanJsonResponse(call.input.text),
                          !.out = ParseText(call.input.text)]
  /\ UNCHANGED <<store, quiz, page, factory>>

NormalizeSpec == NormalizeInit /\ [][Parsing]_vars

\* QuizSpec: a quiz of one to MaxQuestions questions is taken, each question
\* answered by any option, and taken again
QuestionLists == UNION {[1..n -> Options] : n \in 1..MaxQuestions}

QuizInit ==
  /\ EmptyStore
  /\ call = NoCall
  /\ page = NoPage /\ factory = NoFactory
  /\ quiz \in {Mount(questions) : questions \in QuestionLists}

Answering == \E index \in Options : HandleOptionSelect(index)

QuizNext == Answering \/ HandleNext \/ HandleRestart

QuizSpec == QuizInit /\ [][QuizNext]_vars

\* RegisterSpec: register calls for the addresses above, their steps in
\* every interleaving
Registering ==
  \E c \in RegisterCalls :
    \/ \E email \in Emails : Register(c, email)
    \/ CreateUser(c)
    \/ RegisterSession(c)

RegisterSpec == InitEmpty /\ [][Registering]_vars

\* ================================================================ claims
\* the steps of the job at which C1 lets a fault occur
PipelineFaults == {"load", "extract", "generate", "persist"}
\* the steps that come before the document is 'processing'
OpeningSteps == {"ensureDb", "setProcessing"}
Ended(d) == pc[d] \in {"done", "rejected"}
Stopped(d) == Ended(d) \/ pc[d] = "crashed"

\* C1: when processDocument has returned and errors were raised at most at
\* the load, the extraction, the generation or the persisting of the
\* material, the document is 'completed' or 'failed'
C1_FaultsEndTerminal ==
  \A d \in DOMAIN docs :
    (pc[d] = "done" /\ faulted[d] \subseteq PipelineFaults)
      => docs[d].status \in Terminal

\* a job has returned after its persist step raised, and left 'failed';
\* another has returned without any fault, and left 'completed'
C1_Witness ==
  \E d, e \in DOMAIN docs :
    /\ pc[d] = "done" /\ faulted[d] = {"persist"} /\ docs[d].status = "failed"
    /\ pc[e] = "done" /\ faulted[e] = {} /\ docs[e].status = "completed"

\* C2 as stated: a 'pending' document is 'pending' or 'processing' after
\* every step, whichever statement raises
C2_NeverSkipsProcessing ==
  [][\A d \in DOMAIN docs :
       docs[d].status = "pending"
         => docs'[d].status \in {"pending", "processing"}]_vars

\* C2: a document goes from 'pending' to 'processing' and from there to
\* 'completed' or 'failed'; the one step from 'pending' to anything else is
\* the catch block writing 'failed' after ensureDb or the update to
\* 'processing' raised
C2_SkipsOnlyAfterOpeningFault ==
  [][\A d \in DOMAIN docs :
       /\ docs[d].status = "pending" /\ docs'[d].status # "pending"
            => \/ docs'[d].status = "processing"
               \/ /\ docs'[d].status = "failed"
                  /\ pc[d] = "catch"
                  /\ faulted[d] \cap OpeningSteps # {}
       /\ docs[d].status = "processing"
            => docs'[d].status \in {"processing"} \cup Terminal]_vars

\* a document is 'failed' after a fault later than the opening steps: it
\* went through 'processing'
C2_Witness ==
  \E d \in DOMAIN docs :
    /\ docs[d].status = "failed"
    /\ faulted[d] # {}
    /\ faulted[d] \cap OpeningSteps = {}

C4_NeverRejects == \A d \in DocIds : pc[d] # "rejected"

\* C5 as stated: a failed extraction is caught by the job (control is in
\* the catch block holding the extractor's error, not in a later step), the
\* job ends 'failed' with the extractor's message, and no rejection is
\* left without a handler
C5_ExtractionFailureFailsJob ==
  \A d \in DOMAIN docs :
    "extract" \in faulted[d] =>
      LET e == ExtractTextFromBase64(docs[d]).error
      IN /\ d \notin unhandled
         /\ pc[d] \in {"catch", "done", "rejected"}
         /\ pc[d] = "catch" => caught[d] = Some(e)
         /\ (pc[d] = "done" /\ "setFailed" \notin faulted[d])
              => /\ docs[d].status = "failed"
                 /\ docs[d].errorMessage = Some(e.message)
                 /\ Includes(docs[d].mimeType, "pdf")
                      => Contains(e.message, "Failed to parse PDF: ")

\* C6: a document that is 'completed', or that a status query has reported
\* so, has a study material; getMaterial by its owner answers with it
C6_CompletedHasMaterial ==
  /\ \A d \in DOMAIN docs :
       (docs[d].status = "completed" \/ d \in seenCompleted)
         => FindMaterial(materials, d) # Null
  /\ (resp.op = "getMaterial" /\ resp.code = "OK" /\ resp.docId \in seenCompleted)
       => /\ resp.body[2] # Null
          /\ resp.body[2] = FindMaterial(materials, resp.docId)

\* getMaterial has answered for a document whose status was reported
\* 'completed' before
C6_Witness ==
  /\ resp.op = "getMaterial"
  /\ resp.code = "OK"
  /\ resp.docId \in seenCompleted
  /\ resp.body[1].status = "completed"

C8_UploadDispatchesOnce ==
  [][/\ (resp' # resp /\ resp'.op = "upload" /\ resp'.code = "OK")
          => LET id == resp'.docId
             IN /\ id \notin DOMAIN docs
                /\ DOMAIN docs' = DOMAIN docs \cup {id}
                /\ \A d \in DOMAIN docs : docs'[d] = docs[d]
                /\ docs'[id].status = "pending"
                /\ resp'.user = Some(docs'[id].userId)
                /\ resp'.body = <<id, "pending">>
                /\ pc'[id] = "queued"
                /\ pc[id] = "idle"
     /\ \A d \in DocIds :
          dispatched'[d] = IF d \in DOMAIN docs' THEN 1 ELSE 0]_vars

\* an upload has answered and the job of its document has not started
C8_Witness ==
  /\ resp.op = "upload"
  /\ resp.code = "OK"
  /\ resp.docId \in DOMAIN docs
  /\ pc[resp.docId] = "queued"
  /\ dispatched[resp.docId] = 1
  /\ docs[resp.docId].status = "pending"

\* C9: status and getMaterial answer an authenticated caller who asks for a
\* document of another user exactly as for a document that does not exist:
\* NOT_FOUND, 'Document not found', no field of the document
C9_OthersDocumentNotFound ==
  (resp.op \in {"status", "getMaterial"} /\ resp.user # Null)
    => \A u \in resp.user :
         (resp.docId \notin DOMAIN docs \/ docs[resp.docId].userId # u)
           => resp = [op |-> resp.op, code |-> "NOT_FOUND",
                      message |-> "Document not found", user |-> Some(u),
                      docId |-> resp.docId, body |-> <<>>]

\* a signed-in user has asked for a stored document of another user
C9_Witness ==
  /\ resp.op \in {"status", "getMaterial"}
  /\ resp.code = "NOT_FOUND"
  /\ resp.docId \in DOMAIN docs
  /\ \E u \in resp.user : docs[resp.docId].userId # u

\* C10 as stated: a request of the study router that does not authenticate
\* is answered UNAUTHORIZED, stores nothing and schedules nothing
C10_NoSessionUnauthorized ==
  [][(resp' # resp /\ resp'.user = Null)
       => /\ resp'.code = "UNAUTHORIZED"
          /\ UNCHANGED <<docs, materials, progress, pc, dispatched>>]_vars

\* C11: history answers an authenticated user with exactly the documents
\* that user owns: each of them once, none of another user
C11_HistoryIsOwnDocuments ==
  (resp.op = "history" /\ resp.code = "OK")
    => \A u \in resp.user :
         LET listed == resp.body
             own == {d \in DOMAIN docs : docs[d].userId = u}
         IN /\ {listed[i].id : i \in 1..Len(listed)} = own
            /\ Len(listed) = Cardinality(own)

\* a user who owns a document is answered while another user owns one too
C11_Witness ==
  /\ resp.op = "history"
  /\ resp.code = "OK"
  /\ Len(resp.body) >= 1
  /\ \E d \in DOMAIN docs : \A u \in resp.user : docs[d].userId # u

\* the declared type has the word in it
Mentions(mimeType, word) == \E i \in 1..Len(mimeType) : mimeType[i] = word
ExtractReturned == call.fn = "extract" /\ call.done

\* C12: for PDF text of length L from the parser, the extractor returns the
\* text unchanged if L <= 50000, and otherwise its first 50000 characters
\* followed by the truncation suffix, 50000 + 38 characters in all
C12_PdfTextCappedAt50000 ==
  (ExtractReturned /\ Mentions(call.mimeType, "pdf") /\ call.base64Data.parses)
    => LET text == call.base64Data.text
           out == call.out
       IN /\ out.ok
          /\ Length(text) <= 50000 => out.text = text
          /\ Length(text) > 50000
               => /\ Length(out.text) = 50000 + Length(TruncationSuffix)
                  /\ Length(TruncationSuffix) = 38
                  /\ Substring0(out.text, 50000) = Substring0(text, 50000)
                  /\ out.text = Concat(Substring0(text, 50000), TruncationSuffix)

\* a PDF text longer than the cap and the suffix has come back shorter
C12_Witness ==
  /\ ExtractReturned
  /\ Mentions(call.mimeType, "pdf")
  /\ call.out.ok
  /\ Length(call.base64Data.text) > 50000
  /\ Length(call.out.text) < Length(call.base64Data.text)

\* C13 as stated: the cap applies to a text-like document too: decoded text
\* longer than 50000 characters comes back as its first 50000 characters
\* and the truncation suffix
C13_TextCappedAt50000 ==
  (ExtractReturned /\ ~Mentions(call.mimeType, "pdf")
     /\ ~Mentions(call.mimeType, "image"))
    => LET text == call.base64Data.text
       IN Length(text) > 50000
            => call.out.text = Concat(Substring0(text, 50000), TruncationSuffix)

\* C14: the extractor looks for the words in the declared type wherever
\* they stand: a type with 'pdf' in it takes the PDF path (the text, or
\* 'Failed to parse PDF'), any other type with 'image' in it fails with the
\* one OCR error whatever the payload, every other type gives the decoded
\* text and never fails
C14_DispatchOnMimeSubstring ==
  ExtractReturned
    => LET b == call.base64Data
           out == call.out
       IN /\ Mentions(call.mimeType, "pdf")
               => /\ out.ok = b.parses
                  /\ b.parses => Substring0(out.text, 50000) = Substring0(b.text, 50000)
                  /\ ~b.parses
                       => /\ out.error.isError
                          /\ out.error.message[1] = "Failed to parse PDF: "
          /\ (~Mentions(call.mimeType, "pdf") /\ Mentions(call.mimeType, "image"))
               => /\ ~out.ok
                  /\ out.error.isError
                  /\ out.error.message
                       = <<"Image documents require OCR which is not yet implemented. Please upload a PDF or text file.">>
          /\ (~Mentions(call.mimeType, "pdf") /\ ~Mentions(call.mimeType, "image"))
               => out.ok /\ out.text = b.text

\* a type with parameters after 'pdf' has taken the PDF path
C14_Witness ==
  /\ ExtractReturned
  /\ call.mimeType = <<"application", "pdf", "charset=utf-8">>
  /\ call.base64Data.parses
  /\ call.out.ok

ParseReturned == call.fn = "parse" /\ call.done

\* C15: a valid JSON object in a code fence that spans the whole trimmed
\* text, tagged json in any letter case or not tagged, with any white space
\* inside and around the fence, is normalized to the fenced content and
\* parses to that object
C15_FencedObjectParses ==
  (ParseReturned /\ call.input.kind = "fenced")
    => /\ call.cleaned = call.input.body
       /\ call.out.ok
       /\ call.out.value = call.input.object

\* an object written over several lines inside a fence tagged JSON, with
\* blank lines around the fence, has been parsed
C15_Witness ==
  /\ ParseReturned
  /\ call.input.kind = "fenced"
  /\ call.input.body # call.input.object
  /\ Len(call.input.object) > 4
  /\ call.input.text[1] = "LF"
  /\ \E i \in 1..Len(call.input.text) : call.input.text[i] = "JSON"
  /\ call.out.ok

\* C16: an object between prose without braces is normalized to exactly
\* the piece from its first '{' to its last '}' and parses to the object;
\* a bare object is returned unchanged
C16_ObjectInProseParses ==
  (ParseReturned /\ call.input.kind = "prose")
    => /\ call.cleaned = call.input.body
       /\ call.out.ok
       /\ call.out.value = call.input.object
       /\ call.input.text = call.input.object => call.cleaned = call.input.text

\* an object with prose before and after it has been parsed
C16_Witness ==
  /\ ParseReturned
  /\ call.input.kind = "prose"
  /\ call.input.text[1] = "Sorry"
  /\ call.input.text[Len(call.input.text)] = "helps!"
  /\ Len(call.input.object) > 4
  /\ call.out.ok

\* a completion has a block in braces: a '{' with a '}' after it
HasBlock(text) ==
  \E i, j \in 1..Len(text) : i < j /\ text[i] = "{" /\ text[j] = "}"

\* C17 as stated: text without a block in braces keeps its trimmed form and
\* fails to parse; a block in braces that is not JSON is extracted and
\* fails to parse
C17_NoObjectNoMaterial ==
  (ParseReturned /\ call.input.kind = "junk")
    => /\ ~call.out.ok
       /\ call.out.error.message[1] = "Failed to parse AI response as JSON: "
       /\ ~HasBlock(call.input.text) => call.cleaned = Trim(call.input.text)

\* C18: every record getProgress reports carries the percentage
\* round(score / totalQuestions * 100) of its stored score and
\* totalQuestions: the integer nearest to 100 score / totalQuestions, the
\* upper one when half way
C18_PercentageIsRounded ==
  (resp.op = "getProgress" /\ resp.code = "OK")
    => \A x \in DOMAIN resp.body :
         LET r == resp.body[x]
             twice == 2 * r.percentage * r.totalQuestions
         IN /\ r.score = progress[x].score
            /\ r.totalQuestions = progress[x].totalQuestions
            /\ twice - r.totalQuestions <= 200 * r.score
            /\ 200 * r.score < twice + r.totalQuestions

\* the questions of this attempt answered correctly
Right(q) ==
  Cardinality({i \in 1..Len(q.answers) : q.answers[i] = q.questions[i]})

\* C19: onComplete has been called once for each attempt that reached the
\* results screen and for no other; the call of the attempt on the screen
\* carried the number of questions answered correctly and the number of
\* questions, and the screen shows that score
C19_OnCompleteOnceWithScore ==
  /\ Len(quiz.completed)
       = (IF quiz.showResults THEN quiz.attempt ELSE quiz.attempt - 1)
  /\ Screen(quiz) = "results"
       => /\ quiz.completed[quiz.attempt]
               = [score |-> Right(quiz), total |-> Len(quiz.questions)]
          /\ FinalScore(quiz) = Right(quiz)

\* C20: no two users have the same email address, compared without regard
\* to case
C20_OneUserPerEmail ==
  \A i, j \in DOMAIN accounts :
    ToLowerCase(accounts[i].email) = ToLowerCase(accounts[j].email) => i = j

\* a stored session whose expiresAt is earlier than the current time
Overdue(sid) == sid \in DOMAIN sessions /\ sessions[sid].expiresAt < now

\* C21: me, asked with the id of a session whose expiresAt is earlier than
\* the current time, answers user null, history asked with it answers
\* UNAUTHORIZED, and either lookup deletes the session record; a session
\* that is overdue stays overdue until it is deleted and never comes back,
\* so it never authenticates again
C21_ExpiredSessionNeverResolves ==
  /\ [][\A sid \in 1..MaxSessions :
          /\ (Overdue(sid) /\ Me(sid))
               => (resp'.user = Null /\ sid \notin DOMAIN sessions')
          /\ (Overdue(sid) /\ History(sid))
               => /\ resp'.code = "UNAUTHORIZED"
                  /\ resp'.user = Null
                  /\ sid \notin DOMAIN sessions']_vars
  /\ \A sid \in 1..MaxSessions :
       [](Overdue(sid) => [](sid \notin DOMAIN sessions \/ Overdue(sid)))

\* me has answered user null and a session record has been deleted
C21_Witness ==
  /\ resp.op = "me"
  /\ resp.user = Null
  /\ \E sid \in 1..nSessions : sid \notin DOMAIN sessions

\* C22: every StudyMaterial belongs to a document whose job raised no error
\* at the load, the extraction or the generation, and no document has two;
\* a step that creates one is the job's insert after the generation
C22_MaterialOnlyAfterSuccess ==
  /\ [](\A x \in DOMAIN materials :
         LET d == materials[x].documentId
         IN /\ faulted[d] \cap {"load", "extract", "generate"} = {}
            /\ \A y \in DOMAIN materials : materials[y].documentId = d => y = x)
  /\ [][materials' # materials
          => \E d \in DocIds : pc[d] = "persist" /\ generated[d] # Null]_vars

\* C23: when the catch block marks the document failed, the errorMessage
\* stored with it is the message of the caught exception, or 'Unknown error'
\* when the exception carries no message; it is never null
C23_FailedCarriesMessage ==
  [][\A d \in DOMAIN docs :
       (pc[d] = "catch" /\ docs'[d] # docs[d])
         => /\ docs'[d].status = "failed"
            /\ \E e \in caught[d] :
                 docs'[d].errorMessage
                   = Some(IF e.isError /\ e.message # <<>>
                          THEN e.message ELSE <<"Unknown error">>)]_vars

\* what generateStudyMaterial may be left with: the provider's throw or the
\* error of parsing the completion
GenerationErrors ==
  ProviderThrows
    \cup {Err(<<"Failed to parse AI response as JSON: ", "Unexpected token">>)}

\* C24: no job sends more than one completion request; when the request or
\* the parsing of the completion fails, the job's catch block holds that
\* very error, and it marks the document failed with no further request
C24_OneCompletionRequest ==
  /\ [](\A d \in DocIds : asked[d] <= 1)
  /\ [][\A d \in DocIds :
          /\ (pc[d] = "generate" /\ pc'[d] = "catch")
               => \E e \in GenerationErrors : caught'[d] = Some(e)
          /\ (pc[d] = "catch" /\ "generate" \in faulted[d] /\ docs'[d] # docs[d])
               => /\ docs'[d].status = "failed"
                  /\ \E e \in GenerationErrors :
                       /\ caught[d] = Some(e)
                       /\ docs'[d].errorMessage
                            = Some(IF e.isError THEN e.message
                                   ELSE <<"Unknown error">>)
                  /\ asked'[d] = 1]_vars

\* a job whose generation failed has ended with the document failed
C24_Witness ==
  \E d \in DOMAIN docs :
    /\ pc[d] = "done"
    /\ "generate" \in faulted[d]
    /\ docs[d].status = "failed"
    /\ asked[d] = 1

\* the statuses at which the page is to keep polling
Unfinished == {Some("pending"), Some("processing")}

\* C25: the study page sends a further status request only when 3 seconds
\* have passed since the last one settled and the last status it received was
\* pending or processing, so none once it has received completed or failed;
\* while the last status received is pending or processing and no request is
\* under way, a further status request follows; and the getMaterial request
\* leaves only when the last status received is completed
C25_PollsUntilFinished ==
  /\ [][(page'.polls # page.polls /\ page.statusFetched)
          => /\ page.statusData \in Unfinished
             /\ page.wait = RefetchMs]_vars
  /\ [][(page'.materialFetched /\ ~page.materialFetched)
          => page.statusData = Some("completed")]_vars
  /\ (page.statusData \in Unfinished /\ page.inflight = "none")
       ~> (page.inflight = "status")

\* the page polled while the document was being processed, then received
\* completed and has asked for the material
C25_Witness ==
  /\ page.repolled
  /\ page.statusData = Some("completed")
  /\ page.materialFetched
  /\ page.materialData # Null

\* the stored materials of a document
MaterialsOf(ms, d) == {x \in DOMAIN ms : ms[x].documentId = d}
Working == {"load", "extract", "generate", "persist", "setCompleted"}

\* C26: a step that is not one of the job of document b leaves b's row and
\* b's study materials as they were, whatever the jobs of other documents
\* write; and the status of b is the one that b's own job wrote last: the
\* update to 'completed' and the update to 'failed' leave that status,
\* it is 'processing' while the job is between its first and its last
\* update, and 'completed' or 'failed' once the job has returned with its
\* last update made
C26_JobsKeepToTheirDocument ==
  /\ [][\A b \in DOMAIN docs :
          /\ pc'[b] = pc[b]
               => /\ docs'[b] = docs[b]
                  /\ MaterialsOf(materials', b) = MaterialsOf(materials, b)
                  /\ \A x \in MaterialsOf(materials, b) :
                       materials'[x] = materials[x]
          /\ (pc[b] = "setCompleted" /\ pc'[b] = "done")
               => docs'[b].status = "completed"
          /\ (pc[b] = "catch" /\ pc'[b] = "done" /\ faulted'[b] = faulted[b])
               => docs'[b].status = "failed"]_vars
  /\ [](\A b \in DOMAIN docs :
          /\ pc[b] \in Working => docs[b].status = "processing"
          /\ (pc[b] = "done" /\ "setFailed" \notin faulted[b])
               => docs[b].status \in Terminal)

\* the job of one document has ended 'failed' while the job of another,
\* started before it ended, is about to store its material
C26_Witness ==
  \E a, b \in DOMAIN docs :
    /\ a # b
    /\ pc[a] = "done" /\ docs[a].status = "failed"
    /\ pc[b] = "persist" /\ docs[b].status = "processing"
    /\ MaterialsOf(materials, a) = {}

\* C27 as stated: every record in an answer of getProgress belongs to the
\* user the request authenticated as, with and without a studyMaterialId
C27_ProgressIsOwn ==
  (resp.op = "getProgress" /\ resp.code = "OK")
    => \A u \in resp.user :
         \A x \in DOMAIN resp.body : progress[x].userId = u

\* C28 as stated: whatever the order of the calls of initDatabase, at most
\* one database instance is constructed, init() is called at most once on
\* it, and a call that returns an instance returns one whose init() has
\* completed
C28_OneInitializedInstance ==
  /\ [](factory.created <= 1)
  /\ [](\A i \in Callers : factory.inits[i] <= 1)
  /\ [][\A c \in Callers :
          (factory'.caller[c].pc = "returned" /\ factory.caller[c].pc # "returned")
            => /\ factory'.caller[c].got # Null
               /\ factory'.caller[c].got \subseteq factory'.ready]_vars

\* C29: in every state a document that is 'pending', 'processing' or
\* 'completed' has no errorMessage, so a document with an errorMessage is
\* 'failed'
C29_MessageOnlyWhenFailed ==
  \A d \in DOMAIN docs :
    /\ docs[d].status \in {"pending", "processing", "completed"}
         => docs[d].errorMessage = Null
    /\ docs[d].errorMessage # Null => docs[d].status = "failed"

\* a job that had marked its document 'processing', an update without a
\* message, has ended and left 'failed' with a message
C29_Witness ==
  \E d \in DOMAIN docs :
    /\ pc[d] = "done"
    /\ "setProcessing" \notin faulted[d]
    /\ docs[d].status = "failed"
    /\ docs[d].errorMessage # Null

\* C30: when the completion a job received is empty or missing, its
\* generation raises nothing and hands on the empty object; and when the job
\* has returned and neither the insert nor the last update raised, the
\* document is 'completed' with no errorMessage and has one study material,
\* whose summary, flashcards and quiz are all null
C30_EmptyCompletionCompletes ==
  \A d \in DOMAIN docs :
    received[d] = Some(TRUE)
      => /\ "generate" \notin faulted[d]
         /\ pc[d] = "persist" => generated[d] = Some(EmptyObject)
         /\ (pc[d] = "done" /\ faulted[d] \cap {"persist", "setCompleted"} = {})
              => /\ docs[d].status = "completed"
                 /\ docs[d].errorMessage = Null
                 /\ Cardinality(MaterialsOf(materials, d)) = 1
                 /\ \A x \in MaterialsOf(materials, d) :
                      /\ materials[x].summary = Null
                      /\ materials[x].flashcards = Null
                      /\ materials[x].quiz = Null

\* a job that was answered with an empty completion has returned and left
\* its document 'completed' with a study material that holds nothing
C30_Witness ==
  \E d \in DOMAIN docs :
    /\ received[d] = Some(TRUE)
    /\ pc[d] = "done"
    /\ docs[d].status = "completed"
    /\ \E x \in MaterialsOf(materials, d) : materials[x].summary = Null

====
